---- MODULE Spec2Model ----
(***************************************************************************)
(* The quota-aware streaming response pipeline of                          *)
(* ols/app/endpoints/streaming_ols.py and the capacity-bounded             *)
(* conversation cache of ols/src/cache/postgres_cache.py.                  *)
(*                                                                         *)
(* Spec       one streaming request: response_processing_wrapper, an       *)
(*            async generator, advanced from one suspension point to the   *)
(*            next; the fragment source is a given sequence of items.      *)
(* CacheSpec  PostgresCache.insert_or_append and PostgresCache.get called  *)
(*            again and again by one caller, statement by statement; any   *)
(*            statement may fail, and a stored value may fail to decode.   *)
(* RaceSpec   two callers of insert_or_append, interleaved statement by    *)
(*            statement (the connection is in autocommit mode, so every    *)
(*            statement is a transaction of its own).                      *)
(* ConvSpec   requests on one conversation one after the other, from       *)
(*            conversation_request to the end of the generator, while      *)
(*            other conversations store their turns in the same cache.     *)
(*                                                                         *)
(* Timestamps are logical: CURRENT_TIMESTAMP is later than every stored    *)
(* updated_at, so no two rows tie. The driver is taken to hand back the    *)
(* stored value as it was written.                                         *)
(***************************************************************************)
EXTENDS Integers, Sequences, FiniteSets, TLC

\* ------------------------------------------------------------------ bounds
\* Longest fragment source (items the source holds).
MaxItems == 4
\* Allowance of the one configured quota ledger at the start of the request.
InitialQuota == 4
\* PostgresCache.capacity (config.max_entries) of the modelled deployment.
capacity == 2
\* insert_or_append calls made in one behaviour of CacheSpec, and of RaceSpec.
MaxCalls == 4
MaxRaceCalls == 3
\* Storage statements that fail (psycopg2.DatabaseError) in one behaviour.
MaxFaults == 1
\* Requests handled in a run of ConvSpec, and the length of their sources.
MaxRequests == 4
MaxConvItems == 1

\* ------------------------------------------------------- request constants
MEDIA_TYPE_TEXT == "text/plain"
MEDIA_TYPE_JSON == "application/json"
MediaTypes == {MEDIA_TYPE_TEXT, MEDIA_TYPE_JSON}

user_id == "u1"
conversation_id == "c1"

\* Python's None where a TokenCounter is expected.
None == [none |-> TRUE]

\* Text is a sequence of characters; + on str is \o.
Fragments == {<<"a">>, <<"b">>}

\* What the source can hand over at one step of `async for item in generator`:
\* a text fragment, the terminal SummarizerResponse, or a raised exception.
FragmentItems == {[kind |-> "fragment", payload |-> f] : f \in Fragments}

SummarizerResponses ==
    { [kind |-> "SummarizerResponse",
       payload |-> [rag_chunks |-> <<>>, history_truncated |-> FALSE,
                    token_counter |-> [input_tokens |-> 1, output_tokens |-> 1]]],
      [kind |-> "SummarizerResponse",
       payload |-> [rag_chunks |-> <<[doc_title |-> "Docs", doc_url |-> "http://x",
                                      text |-> "chunk"]>>,
                    history_truncated |-> TRUE,
                    token_counter |-> [input_tokens |-> 2, output_tokens |-> 3]]] }

RaiseItems ==
    { [kind |-> "PromptTooLongError", payload |-> <<"too long">>],
      [kind |-> "Exception", payload |-> <<"boom">>] }

Items == FragmentItems \cup SummarizerResponses \cup RaiseItems

RECURSIVE SeqsUpTo(_, _)
SeqsUpTo(S, n) ==
    IF n = 0 THEN {<<>>}
    ELSE LET shorter == SeqsUpTo(S, n - 1)
         IN  shorter \cup {Append(s, x) : s \in {t \in shorter : Len(t) = n - 1}, x \in S}

Generators == SeqsUpTo(Items, MaxItems)

VARIABLES
    \* ---- one streaming request (Spec)
    media_type,         \* llm_request.media_type
    generator,          \* the fragment source: the items it would hand over, in order
    pos,                \* items of the source consumed so far
    pc,                 \* where response_processing_wrapper is suspended or has ended
    response,           \* local: running response buffer
    rag_chunks,         \* local
    history_truncated,  \* local
    idx,                \* local: index of the next Token
    token_counter,      \* local: None until the terminal result is seen
    events,             \* the events handed to the encoder, in order of emission
    wire,               \* the frames yielded to the transport, in order
    storeCalls,         \* calls of store_data made for this request
    consumeCalls,       \* calls of consume_tokens made for this request
    quota,              \* remaining allowance of the configured ledger
    closedAt,           \* the suspension point at which the generator was closed
    \* ---- the conversation cache and its callers (CacheSpec)
    rows,               \* the rows of table `cache`
    cpc,                \* per caller: the statement insert_or_append executes next
    args,               \* per caller: (user_id, conversation_id, cache_entry)
    old_value,          \* per caller: local, what _select returned
    count,              \* per caller: local of _cleanup
    before,             \* per caller: the rows when its call began
    ncalls,             \* calls of insert_or_append begun
    nfaults,            \* statements that failed
    call,               \* per caller: the operation it is in ("" when in none)
    result,             \* per caller: what get returned (<<>> until it returns)
    exc,                \* per caller: the exception that left the operation
    \* ---- the requests made on one conversation (ConvSpec)
    nrequests,          \* requests handled so far
    topic_summaries     \* calls of get_topic_summary for (user_id, conversation_id)

pipeVars == <<media_type, generator, pos, pc, response, rag_chunks, history_truncated,
              idx, token_counter, events, wire, storeCalls, consumeCalls, quota, closedAt>>

\* The callers' side of the cache: everything but the table.
cacheLocals == <<cpc, args, old_value, count, before, ncalls, nfaults, call, result, exc>>

cacheVars == <<rows, cacheLocals>>

convVars == <<nrequests, topic_summaries>>

vars == <<pipeVars, cacheVars, convVars>>

\* ---------------------------------------------------------------- encoder
format_stream_data(d) == <<"data: ", d, "\n\n">>

stream_start_event(cid) ==
    format_stream_data([event |-> "start", data |-> [conversation_id |-> cid]])

build_yield_item(item, i, mt) ==
    IF mt = MEDIA_TYPE_TEXT
    THEN item
    ELSE format_stream_data([event |-> "token", data |-> [id |-> i, token |-> item]])

prompt_too_long_error(error, mt) ==
    IF mt = MEDIA_TYPE_TEXT
    THEN <<"Prompt is too long: ">> \o error
    ELSE format_stream_data([event |-> "error",
                             data |-> [status_code |-> 413,
                                       response |-> "Prompt is too long",
                                       cause |-> error]])

\* errors_parsing.parse_generic_llm_error: (status, response, cause)
parse_generic_llm_error(error) == <<500, "Error while obtaining answer", error>>

generic_llm_error(error, mt) ==
    LET parsed == parse_generic_llm_error(error)
    IN  IF mt = MEDIA_TYPE_TEXT
        THEN <<parsed[2], ": ">> \o parsed[3]
        ELSE format_stream_data([event |-> "error",
                                 data |-> [response |-> parsed[2], cause |-> parsed[3]]])

calc_input_tokens(tc) == IF tc = None THEN 0 ELSE tc.input_tokens
calc_output_tokens(tc) == IF tc = None THEN 0 ELSE tc.output_tokens

RECURSIVE build_referenced_docs(_)
build_referenced_docs(chunks) ==
    IF chunks = <<>> THEN <<>>
    ELSE LET rest == build_referenced_docs(SubSeq(chunks, 1, Len(chunks) - 1))
             c == chunks[Len(chunks)]
             d == [doc_title |-> c.doc_title, doc_url |-> c.doc_url]
         IN  IF \E i \in 1..Len(rest) : rest[i] = d THEN rest ELSE Append(rest, d)

RECURSIVE ref_docs_string(_)
ref_docs_string(ref_docs) ==
    IF ref_docs = <<>> THEN <<>>
    ELSE LET item == ref_docs[1]
             line == <<item.doc_title, ": ", item.doc_url>>
         IN  IF Len(ref_docs) = 1 THEN line
             ELSE line \o <<"\n">> \o ref_docs_string(Tail(ref_docs))

stream_end_event(ref_docs, truncated, mt, tc, available_quotas) ==
    IF mt = MEDIA_TYPE_JSON
    THEN format_stream_data([event |-> "end",
                             data |-> [referenced_documents |-> ref_docs,
                                       truncated |-> truncated,
                                       input_tokens |-> calc_input_tokens(tc),
                                       output_tokens |-> calc_output_tokens(tc)],
                             available_quotas |-> available_quotas])
    ELSE IF ref_docs_string(ref_docs) # <<>>
         THEN <<"\n\n---\n\n">> \o ref_docs_string(ref_docs)
         ELSE <<>>

\* The domain events behind the frames (what §3 calls StreamEvent).
StartEvent(cid) == [type |-> "Start", conversation_id |-> cid]
TokenEvent(i, item) == [type |-> "Token", index |-> i, fragment |-> item]
ErrorEvent(kind, cause) == [type |-> "Error", kind |-> kind, cause |-> cause]
EndEvent(ref_docs, truncated, tc, available_quotas) ==
    [type |-> "End", ref_docs |-> ref_docs, truncated |-> truncated,
     input_tokens |-> calc_input_tokens(tc), output_tokens |-> calc_output_tokens(tc),
     available_quotas |-> available_quotas]

Emit(ev, frame) ==
    /\ events' = Append(events, ev)
    /\ wire' = Append(wire, frame)

\* ------------------------------------------------------------------ ledger
Max(a, b) == IF a >= b THEN a ELSE b

\* consume_tokens on the configured ledger: never below zero.
consume_tokens(q, input_tokens, output_tokens) == Max(0, q - (input_tokens + output_tokens))

get_available_quotas(q) == [UserQuotaLimiter |-> q]

\* ------------------------------------------ statements of the cache store
\* CacheEntry.to_dict / CacheEntry.from_dict and json.dumps / json.loads.
to_dict(cache_entry) == [dict |-> cache_entry]
from_dict(d) == d.dict
json_dumps(v) == [json |-> v]
json_loads(s) == s.json

Row(u, c, v, t) == [user_id |-> u, conversation_id |-> c, value |-> v, updated_at |-> t]

Matching(rs, u, c) == {r \in rs : r.user_id = u /\ r.conversation_id = c}

\* _select: None (<<>>) when no row matches, else <<the deserialized value>>.
select(rs, u, c) ==
    IF Matching(rs, u, c) = {}
    THEN <<>>
    ELSE <<json_loads((CHOOSE r \in Matching(rs, u, c) : TRUE).value)>>

\* PostgresCache.get
get(rs, u, c) ==
    LET value == select(rs, u, c)
    IN  IF value # <<>>
        THEN [i \in 1..Len(value[1]) |-> from_dict(value[1][i])]
        ELSE <<>>

\* `if old_value:` -- neither None nor an empty list.
Truthy(v) == v # <<>> /\ v[1] # <<>>

\* UPDATE cache SET value=%s, updated_at=CURRENT_TIMESTAMP WHERE user_id=%s AND ...
update(rs, u, c, v, now) ==
    {IF r \in Matching(rs, u, c) THEN Row(u, c, v, now) ELSE r : r \in rs}

\* INSERT INTO cache(user_id, conversation_id, value, updated_at) VALUES (...)
insert(rs, u, c, v, now) == rs \cup {Row(u, c, v, now)}

OldestRows_Descending(rs, n) ==
    {r \in rs : Cardinality({o \in rs : o.updated_at > r.updated_at}) < n}

\* (SELECT user_id, conversation_id FROM cache ORDER BY updated_at LIMIT n)
OldestRows(rs, n) ==
    {r \in rs : Cardinality({o \in rs : o.updated_at < r.updated_at}) < n}

\* DELETE FROM cache WHERE (user_id, conversation_id) in (... LIMIT n)
delete(rs, n) == rs \ OldestRows(rs, n)

\* CURRENT_TIMESTAMP: later than the last write of every stored row.
CURRENT_TIMESTAMP(rs) ==
    IF rs = {} THEN 1
    ELSE 1 + (CHOOSE t \in {r.updated_at : r \in rs} :
                 \A o \in rs : o.updated_at <= t)

\* _cleanup (lines 216-227) run to its end.
cleanup(rs) ==
    IF Cardinality(rs) - capacity > 0 THEN delete(rs, Cardinality(rs) - capacity) ELSE rs

\* insert_or_append (lines 142-162) run to its end with no other caller in between
\* and no failing statement.
insert_or_append(rs, u, c, cache_entry) ==
    LET found == select(rs, u, c) IN
    IF Truthy(found)
    THEN update(rs, u, c, json_dumps(Append(found[1], to_dict(cache_entry))),
                CURRENT_TIMESTAMP(rs))
    ELSE cleanup(insert(rs, u, c, json_dumps(<<to_dict(cache_entry)>>),
                        CURRENT_TIMESTAMP(rs)))

\* ---------------------------------------------------------------- pipeline
PipeInit ==
    /\ media_type \in MediaTypes
    /\ generator \in Generators
    /\ pos = 0
    /\ pc = "init"
    /\ response = <<>>
    /\ rag_chunks = <<>>
    /\ history_truncated = FALSE
    /\ idx = 0
    /\ token_counter = None
    /\ events = <<>>
    /\ wire = <<>>
    /\ storeCalls = <<>>
    /\ consumeCalls = <<>>
    /\ quota = InitialQuota
    /\ closedAt = "open"

Begin_AlwaysStart ==
    /\ pc = "init"
    /\ UNCHANGED <<cacheVars, convVars>>
    /\ Emit(StartEvent(conversation_id), stream_start_event(conversation_id))
    /\ pc' = "yield_start"
    /\ UNCHANGED <<media_type, generator, pos, response, rag_chunks, history_truncated,
                   idx, token_counter, storeCalls, consumeCalls, quota, closedAt>>

\* First __anext__: lines 355-362. In structured mode the generator suspends at the
\* yield of the start frame; in text mode it runs on to the `async for`.
Begin ==
    /\ pc = "init"
    /\ UNCHANGED <<cacheVars, convVars>>
    /\ IF media_type = MEDIA_TYPE_JSON
       THEN /\ Emit(StartEvent(conversation_id), stream_start_event(conversation_id))
            /\ pc' = "yield_start"
       ELSE /\ pc' = "loop"
            /\ UNCHANGED <<events, wire>>
    /\ UNCHANGED <<media_type, generator, pos, response, rag_chunks, history_truncated,
                   idx, token_counter, storeCalls, consumeCalls, quota, closedAt>>

\* Resumed after the start frame: lines 358-362, up to the await of the first item.
ResumeStart ==
    /\ pc = "yield_start"
    /\ UNCHANGED <<cacheVars, convVars>>
    /\ pc' = "loop"
    /\ response' = <<>>
    /\ rag_chunks' = <<>>
    /\ history_truncated' = FALSE
    /\ idx' = 0
    /\ token_counter' = None
    /\ UNCHANGED <<media_type, generator, pos, events, wire, storeCalls, consumeCalls,
                   quota, closedAt>>

\* The terminal result (lines 366-370): taken over, and `break`.
OnSummarizerResponse(item) ==
    /\ rag_chunks' = item.payload.rag_chunks
    /\ history_truncated' = item.payload.history_truncated
    /\ token_counter' = item.payload.token_counter
    /\ pc' = "store"
    /\ UNCHANGED <<response, idx, events, wire, storeCalls, consumeCalls, quota>>

OnFragment_Prepend(item) ==
    /\ response' = item \o response
    /\ Emit(TokenEvent(idx, item), build_yield_item(item, idx, media_type))
    /\ pc' = "yield_token"
    /\ UNCHANGED <<rag_chunks, history_truncated, token_counter, idx, storeCalls,
                   consumeCalls, quota>>

OnFragment_StoreInLoop(item) ==
    /\ response' = response \o item
    /\ Emit(TokenEvent(idx, item), build_yield_item(item, idx, media_type))
    /\ storeCalls' = Append(storeCalls,
                            [user_id |-> user_id, conversation_id |-> conversation_id,
                             response |-> response \o item, rag_chunks |-> rag_chunks,
                             history_truncated |-> history_truncated, ok |-> TRUE])
    /\ pc' = "yield_token"
    /\ UNCHANGED <<rag_chunks, history_truncated, token_counter, idx, consumeCalls, quota>>

\* A text fragment (lines 372-373): accumulated, forwarded, suspend at the yield.
OnFragment(item) ==
    /\ response' = response \o item
    /\ Emit(TokenEvent(idx, item), build_yield_item(item, idx, media_type))
    /\ pc' = "yield_token"
    /\ UNCHANGED <<rag_chunks, history_truncated, token_counter, idx, storeCalls,
                   consumeCalls, quota>>

OnPromptTooLongError_Uncaught(summarizer_error) ==
    /\ pc' = "raised"
    /\ UNCHANGED <<response, rag_chunks, history_truncated, token_counter, idx, events,
                   wire, storeCalls, consumeCalls, quota>>

\* except PromptTooLongError (lines 375-377): one error frame, suspend at the yield.
OnPromptTooLongError(summarizer_error) ==
    /\ Emit(ErrorEvent("PromptTooLong", summarizer_error),
            prompt_too_long_error(summarizer_error, media_type))
    /\ pc' = "yield_error"
    /\ UNCHANGED <<response, rag_chunks, history_truncated, token_counter, idx,
                   storeCalls, consumeCalls, quota>>

\* except Exception (lines 380-381): one error frame, suspend at the yield.
OnException(summarizer_error) ==
    /\ Emit(ErrorEvent("Generic", summarizer_error),
            generic_llm_error(summarizer_error, media_type))
    /\ pc' = "yield_error"
    /\ UNCHANGED <<response, rag_chunks, history_truncated, token_counter, idx,
                   storeCalls, consumeCalls, quota>>

OnExhausted_Fails ==
    /\ pc' = "failed"
    /\ UNCHANGED <<pos, response, rag_chunks, history_truncated, token_counter, idx,
                   events, wire, storeCalls, consumeCalls, quota>>

\* The source is exhausted: the loop ends and the code after it runs.
OnExhausted ==
    /\ pc' = "store"
    /\ UNCHANGED <<pos, response, rag_chunks, history_truncated, token_counter, idx,
                   events, wire, storeCalls, consumeCalls, quota>>

\* One step of `async for item in generator` (lines 364-382).
NextItem ==
    /\ pc = "loop"
    /\ UNCHANGED <<cacheVars, convVars>>
    /\ IF pos = Len(generator)
       THEN OnExhausted
       ELSE LET item == generator[pos + 1] IN
            /\ pos' = pos + 1
            /\ CASE item.kind = "SummarizerResponse" -> OnSummarizerResponse(item)
                 [] item.kind = "fragment" -> OnFragment(item.payload)
                 [] item.kind = "PromptTooLongError" -> OnPromptTooLongError(item.payload)
                 [] item.kind = "Exception" -> OnException(item.payload)
    /\ UNCHANGED <<media_type, generator, closedAt>>

ResumeToken_NoIncrement ==
    /\ pc = "yield_token"
    /\ UNCHANGED <<cacheVars, convVars>>
    /\ pc' = "loop"
    /\ UNCHANGED <<media_type, generator, pos, response, rag_chunks, history_truncated,
                   idx, token_counter, events, wire, storeCalls, consumeCalls, quota,
                   closedAt>>

\* Resumed after a token frame: line 374, then back to the await.
ResumeToken ==
    /\ pc = "yield_token"
    /\ UNCHANGED <<cacheVars, convVars>>
    /\ idx' = idx + 1
    /\ pc' = "loop"
    /\ UNCHANGED <<media_type, generator, pos, response, rag_chunks, history_truncated,
                   token_counter, events, wire, storeCalls, consumeCalls, quota, closedAt>>

ResumeError_NoReturn ==
    /\ pc = "yield_error"
    /\ UNCHANGED <<cacheVars, convVars>>
    /\ pc' = "store"
    /\ UNCHANGED <<media_type, generator, pos, response, rag_chunks, history_truncated,
                   idx, token_counter, events, wire, storeCalls, consumeCalls, quota,
                   closedAt>>

\* Resumed after an error frame: `return` (lines 378, 382).
ResumeError ==
    /\ pc = "yield_error"
    /\ UNCHANGED <<cacheVars, convVars>>
    /\ pc' = "failed"
    /\ UNCHANGED <<media_type, generator, pos, response, rag_chunks, history_truncated,
                   idx, token_counter, events, wire, storeCalls, consumeCalls, quota,
                   closedAt>>

\* What store_conversation_history hands to the cache for this request.
CacheEntry(query, text) == [query |-> query, response |-> text]

\* The cache after store_data: the turn appended when the cache write went through.
Stored(cached) ==
    IF cached
    THEN insert_or_append(rows, user_id, conversation_id, CacheEntry("query", response))
    ELSE rows

StoreData_ContinueOnFailure ==
    /\ pc = "store"
    /\ UNCHANGED <<cacheLocals, convVars>>
    /\ \E ok \in BOOLEAN, cached \in BOOLEAN :
         /\ ok => cached
         /\ storeCalls' = Append(storeCalls,
                                 [user_id |-> user_id, conversation_id |-> conversation_id,
                                  response |-> response, rag_chunks |-> rag_chunks,
                                  history_truncated |-> history_truncated, ok |-> ok])
         /\ rows' = Stored(cached)
    /\ pc' = "consume"
    /\ UNCHANGED <<media_type, generator, pos, response, rag_chunks, history_truncated,
                   idx, token_counter, events, wire, consumeCalls, quota, closedAt>>

StoreData_ErrorOnFailure ==
    /\ pc = "store"
    /\ UNCHANGED <<cacheLocals, convVars>>
    /\ \E ok \in BOOLEAN, cached \in BOOLEAN :
         /\ ok => cached
         /\ storeCalls' = Append(storeCalls,
                                 [user_id |-> user_id, conversation_id |-> conversation_id,
                                  response |-> response, rag_chunks |-> rag_chunks,
                                  history_truncated |-> history_truncated, ok |-> ok])
         /\ rows' = Stored(cached)
         /\ IF ok
            THEN /\ pc' = "consume"
                 /\ UNCHANGED <<events, wire>>
            ELSE /\ Emit(ErrorEvent("Generic", <<"store_data">>),
                         generic_llm_error(<<"store_data">>, media_type))
                 /\ pc' = "yield_error"
    /\ UNCHANGED <<media_type, generator, pos, response, rag_chunks, history_truncated,
                   idx, token_counter, consumeCalls, quota, closedAt>>

\* store_data (lines 386-399, 267-321): the turn is written to the cache, then the
\* transcript; the call either returns or raises (the cache write failed, or the turn
\* was cached and the transcript failed), and nothing in response_processing_wrapper
\* catches what it raises.
StoreData ==
    /\ pc = "store"
    /\ UNCHANGED <<cacheLocals, convVars>>
    /\ \E ok \in BOOLEAN, cached \in BOOLEAN :
         /\ ok => cached
         /\ storeCalls' = Append(storeCalls,
                                 [user_id |-> user_id, conversation_id |-> conversation_id,
                                  response |-> response, rag_chunks |-> rag_chunks,
                                  history_truncated |-> history_truncated, ok |-> ok])
         /\ rows' = Stored(cached)
         /\ pc' = IF ok THEN "consume" ELSE "raised"
    /\ UNCHANGED <<media_type, generator, pos, response, rag_chunks, history_truncated,
                   idx, token_counter, events, wire, consumeCalls, quota, closedAt>>

\* consume_tokens (lines 401-412).
ConsumeTokens ==
    /\ pc = "consume"
    /\ UNCHANGED <<cacheVars, convVars>>
    /\ \E ok \in BOOLEAN :
         /\ consumeCalls' = Append(consumeCalls,
                                   [user_id |-> user_id,
                                    input_tokens |-> calc_input_tokens(token_counter),
                                    output_tokens |-> calc_output_tokens(token_counter),
                                    ok |-> ok])
         /\ quota' = IF ok
                     THEN consume_tokens(quota, calc_input_tokens(token_counter),
                                         calc_output_tokens(token_counter))
                     ELSE quota
         /\ pc' = IF ok THEN "quotas" ELSE "raised"
    /\ UNCHANGED <<media_type, generator, pos, response, rag_chunks, history_truncated,
                   idx, token_counter, events, wire, storeCalls, closedAt>>

EndStream_QuotaReadFirst ==
    /\ pc = "quotas"
    /\ UNCHANGED <<cacheVars, convVars>>
    /\ \/ /\ Emit(EndEvent(build_referenced_docs(rag_chunks), history_truncated,
                           token_counter, get_available_quotas(InitialQuota)),
                  stream_end_event(build_referenced_docs(rag_chunks), history_truncated,
                                   media_type, token_counter,
                                   get_available_quotas(InitialQuota)))
          /\ pc' = "yield_end"
       \/ /\ pc' = "raised"
          /\ UNCHANGED <<events, wire>>
    /\ UNCHANGED <<media_type, generator, pos, response, rag_chunks, history_truncated,
                   idx, token_counter, storeCalls, consumeCalls, quota, closedAt>>

\* get_available_quotas and the yield of the end frame (lines 414-422).
EndStream ==
    /\ pc = "quotas"
    /\ UNCHANGED <<cacheVars, convVars>>
    /\ \/ /\ Emit(EndEvent(build_referenced_docs(rag_chunks), history_truncated,
                           token_counter, get_available_quotas(quota)),
                  stream_end_event(build_referenced_docs(rag_chunks), history_truncated,
                                   media_type, token_counter, get_available_quotas(quota)))
          /\ pc' = "yield_end"
       \/ /\ pc' = "raised"
          /\ UNCHANGED <<events, wire>>
    /\ UNCHANGED <<media_type, generator, pos, response, rag_chunks, history_truncated,
                   idx, token_counter, storeCalls, consumeCalls, quota, closedAt>>

\* Resumed after the end frame: lines 424-426, the generator is exhausted.
ResumeEnd ==
    /\ pc = "yield_end"
    /\ UNCHANGED <<cacheVars, convVars>>
    /\ pc' = "done"
    /\ UNCHANGED <<media_type, generator, pos, response, rag_chunks, history_truncated,
                   idx, token_counter, events, wire, storeCalls, consumeCalls, quota,
                   closedAt>>

Suspended == {"yield_start", "yield_token", "yield_error", "yield_end", "loop"}

Close_RunsFinalize ==
    /\ pc \in Suspended
    /\ UNCHANGED <<cacheVars, convVars>>
    /\ closedAt' = pc
    /\ pc' = "store"
    /\ UNCHANGED <<media_type, generator, pos, response, rag_chunks, history_truncated,
                   idx, token_counter, events, wire, storeCalls, consumeCalls, quota>>

\* The client disconnects: the generator is closed where it is suspended (GeneratorExit
\* at a yield, CancelledError at the await of the next item). Neither is an Exception,
\* so neither `except` clause of lines 375-382 catches it.
Close ==
    /\ pc \in Suspended
    /\ UNCHANGED <<cacheVars, convVars>>
    /\ closedAt' = pc
    /\ pc' = "closed"
    /\ UNCHANGED <<media_type, generator, pos, response, rag_chunks, history_truncated,
                   idx, token_counter, events, wire, storeCalls, consumeCalls, quota>>


\* ------------------------------------------------------ conversation cache
Users == {"u1", "u2"}
Conversations == {"c1", "c2"}
CacheEntries == {"t1", "t2"}
Callers == {"w1", "w2"}
NoArgs == <<"", "", "">>

\* No exception.
NoError == [type |-> "", op |-> "", cause |-> ""]

\* CacheError("PostgresCache.get", e) / CacheError("PostgresCache.insert_or_append", e)
CacheError(op, e) == [type |-> "CacheError", op |-> op, cause |-> e]

CacheInit ==
    /\ rows = {}
    /\ cpc = [w \in Callers |-> "idle"]
    /\ args = [w \in Callers |-> NoArgs]
    /\ old_value = [w \in Callers |-> <<>>]
    /\ count = [w \in Callers |-> 0]
    /\ before = [w \in Callers |-> {}]
    /\ ncalls = 0
    /\ nfaults = 0
    /\ call = [w \in Callers |-> ""]
    /\ result = [w \in Callers |-> <<>>]
    /\ exc = [w \in Callers |-> NoError]

\* insert_or_append is entered (line 142).
Call(w, u, c, cache_entry) ==
    /\ cpc[w] = "idle"
    /\ ncalls' = ncalls + 1
    /\ cpc' = [cpc EXCEPT ![w] = "select"]
    /\ args' = [args EXCEPT ![w] = <<u, c, cache_entry>>]
    /\ before' = [before EXCEPT ![w] = rows]
    /\ call' = [call EXCEPT ![w] = "insert_or_append"]
    /\ UNCHANGED <<rows, old_value, count, nfaults, result, exc>>
    /\ UNCHANGED <<pipeVars, convVars>>

\* Lines 146-147: _select and the branch on its result.
Select(w) ==
    /\ cpc[w] = "select"
    /\ LET found == select(rows, args[w][1], args[w][2]) IN
       /\ old_value' = [old_value EXCEPT ![w] = found]
       /\ cpc' = [cpc EXCEPT ![w] = IF Truthy(found) THEN "update" ELSE "insert"]
    /\ UNCHANGED <<rows, args, count, before, ncalls, nfaults>>
    /\ UNCHANGED <<call, result, exc>>
    /\ UNCHANGED <<pipeVars, convVars>>

Update_ThenCleanup(w) ==
    /\ cpc[w] = "update"
    /\ rows' = update(rows, args[w][1], args[w][2],
                      json_dumps(Append(old_value[w][1], to_dict(args[w][3]))),
                      CURRENT_TIMESTAMP(rows))
    /\ cpc' = [cpc EXCEPT ![w] = "cleanup"]
    /\ UNCHANGED <<args, old_value, count, before, ncalls, nfaults>>
    /\ UNCHANGED <<call, result, exc>>
    /\ UNCHANGED <<pipeVars, convVars>>

Update_Overwrite(w) ==
    /\ cpc[w] = "update"
    /\ rows' = update(rows, args[w][1], args[w][2],
                      json_dumps(<<to_dict(args[w][3])>>), CURRENT_TIMESTAMP(rows))
    /\ cpc' = [cpc EXCEPT ![w] = "returned"]
    /\ UNCHANGED <<args, old_value, count, before, ncalls, nfaults>>
    /\ UNCHANGED <<call, result, exc>>
    /\ UNCHANGED <<pipeVars, convVars>>

\* Lines 148-154: append to the value read and _update.
Update(w) ==
    /\ cpc[w] = "update"
    /\ rows' = update(rows, args[w][1], args[w][2],
                      json_dumps(Append(old_value[w][1], to_dict(args[w][3]))),
                      CURRENT_TIMESTAMP(rows))
    /\ cpc' = [cpc EXCEPT ![w] = "returned"]
    /\ UNCHANGED <<args, old_value, count, before, ncalls, nfaults>>
    /\ UNCHANGED <<call, result, exc>>
    /\ UNCHANGED <<pipeVars, convVars>>

Insert_NoPrimaryKey(w) ==
    /\ cpc[w] = "insert"
    /\ rows' = insert(rows, args[w][1], args[w][2],
                      json_dumps(<<to_dict(args[w][3])>>), CURRENT_TIMESTAMP(rows))
    /\ cpc' = [cpc EXCEPT ![w] = "cleanup"]
    /\ UNCHANGED <<args, old_value, count, before, ncalls, nfaults>>
    /\ UNCHANGED <<call, result, exc>>
    /\ UNCHANGED <<pipeVars, convVars>>

\* Lines 156-161: _insert; the primary key rejects a second row for the key
\* (a psycopg2.DatabaseError, raised as CacheError).
Insert(w) ==
    /\ cpc[w] = "insert"
    /\ IF Matching(rows, args[w][1], args[w][2]) # {}
       THEN /\ cpc' = [cpc EXCEPT ![w] = "CacheError"]
            /\ exc' = [exc EXCEPT ![w] =
                            CacheError("PostgresCache.insert_or_append", "UniqueViolation")]
            /\ UNCHANGED rows
       ELSE /\ rows' = insert(rows, args[w][1], args[w][2],
                              json_dumps(<<to_dict(args[w][3])>>),
                              CURRENT_TIMESTAMP(rows))
            /\ cpc' = [cpc EXCEPT ![w] = "cleanup"]
            /\ UNCHANGED exc
    /\ UNCHANGED <<args, old_value, count, before, ncalls, nfaults>>
    /\ UNCHANGED <<call, result>>
    /\ UNCHANGED <<pipeVars, convVars>>

CleanupCount_OffByOne(w) ==
    /\ cpc[w] = "cleanup"
    /\ count' = [count EXCEPT ![w] = Cardinality(rows)]
    /\ cpc' = [cpc EXCEPT ![w] =
                 IF Cardinality(rows) - capacity > 1 THEN "delete" ELSE "returned"]
    /\ UNCHANGED <<rows, args, old_value, before, ncalls, nfaults>>
    /\ UNCHANGED <<call, result, exc>>
    /\ UNCHANGED <<pipeVars, convVars>>

\* _cleanup, lines 219-224: the size query and the limit.
CleanupCount(w) ==
    /\ cpc[w] = "cleanup"
    /\ count' = [count EXCEPT ![w] = Cardinality(rows)]
    /\ cpc' = [cpc EXCEPT ![w] =
                 IF Cardinality(rows) - capacity > 0 THEN "delete" ELSE "returned"]
    /\ UNCHANGED <<rows, args, old_value, before, ncalls, nfaults>>
    /\ UNCHANGED <<call, result, exc>>
    /\ UNCHANGED <<pipeVars, convVars>>

\* _cleanup, lines 225-227: the eviction statement.
CleanupDelete(w) ==
    /\ cpc[w] = "delete"
    /\ rows' = delete(rows, count[w] - capacity)
    /\ cpc' = [cpc EXCEPT ![w] = "returned"]
    /\ UNCHANGED <<args, old_value, count, before, ncalls, nfaults>>
    /\ UNCHANGED <<call, result, exc>>
    /\ UNCHANGED <<pipeVars, convVars>>

\* A statement raises psycopg2.DatabaseError (lines 125-127, 164-166): the statement has
\* no effect, earlier statements stay committed (autocommit, line 91), and CacheError is
\* raised with the name of the operation and the cause.
Fault(w) ==
    /\ cpc[w] \in {"select", "update", "insert", "cleanup", "delete", "get"}
    /\ nfaults < MaxFaults
    /\ nfaults' = nfaults + 1
    /\ cpc' = [cpc EXCEPT ![w] = "CacheError"]
    /\ exc' = [exc EXCEPT ![w] =
                    CacheError(IF cpc[w] = "get" THEN "PostgresCache.get"
                               ELSE "PostgresCache.insert_or_append", "DatabaseError")]
    /\ UNCHANGED <<rows, args, old_value, count, before, ncalls, call, result>>
    /\ UNCHANGED <<pipeVars, convVars>>

\* The stored value cannot be deserialized: json.loads (line 188) raises a
\* JSONDecodeError, a ValueError and not a psycopg2.DatabaseError, so neither line 125
\* nor line 164 catches it and it leaves the operation as it is.
DecodeFault(w) ==
    /\ cpc[w] \in {"select", "get"}
    /\ Matching(rows, args[w][1], args[w][2]) # {}
    /\ nfaults < MaxFaults
    /\ nfaults' = nfaults + 1
    /\ cpc' = [cpc EXCEPT ![w] = "raised"]
    /\ exc' = [exc EXCEPT ![w] = [type |-> "JSONDecodeError", op |-> "", cause |-> ""]]
    /\ UNCHANGED <<rows, args, old_value, count, before, ncalls, call, result>>
    /\ UNCHANGED <<pipeVars, convVars>>

\* get is entered (line 118).
GetCall(w, u, c) ==
    /\ cpc[w] = "idle"
    /\ cpc' = [cpc EXCEPT ![w] = "get"]
    /\ call' = [call EXCEPT ![w] = "get"]
    /\ args' = [args EXCEPT ![w] = <<u, c, "">>]
    /\ before' = [before EXCEPT ![w] = rows]
    /\ UNCHANGED <<rows, old_value, count, ncalls, nfaults, result, exc>>
    /\ UNCHANGED <<pipeVars, convVars>>

GetSelect_Touch(w) ==
    /\ cpc[w] = "get"
    /\ result' = [result EXCEPT ![w] = <<get(rows, args[w][1], args[w][2])>>]
    /\ rows' = {IF r \in Matching(rows, args[w][1], args[w][2])
                THEN Row(r.user_id, r.conversation_id, r.value, CURRENT_TIMESTAMP(rows))
                ELSE r : r \in rows}
    /\ cpc' = [cpc EXCEPT ![w] = "got"]
    /\ UNCHANGED <<args, old_value, count, before, ncalls, nfaults, call, exc>>
    /\ UNCHANGED <<pipeVars, convVars>>

\* Lines 120-124: the SELECT and the conversion of what it returned.
GetSelect(w) ==
    /\ cpc[w] = "get"
    /\ result' = [result EXCEPT ![w] = <<get(rows, args[w][1], args[w][2])>>]
    /\ cpc' = [cpc EXCEPT ![w] = "got"]
    /\ UNCHANGED <<rows, args, old_value, count, before, ncalls, nfaults, call, exc>>
    /\ UNCHANGED <<pipeVars, convVars>>

\* The call is over (it returned, or an exception left it): its locals are gone.
Return(w) ==
    /\ cpc[w] \in {"returned", "got", "CacheError", "raised"}
    /\ cpc' = [cpc EXCEPT ![w] = "idle"]
    /\ args' = [args EXCEPT ![w] = NoArgs]
    /\ old_value' = [old_value EXCEPT ![w] = <<>>]
    /\ count' = [count EXCEPT ![w] = 0]
    /\ before' = [before EXCEPT ![w] = {}]
    /\ call' = [call EXCEPT ![w] = ""]
    /\ result' = [result EXCEPT ![w] = <<>>]
    /\ exc' = [exc EXCEPT ![w] = NoError]
    /\ UNCHANGED <<rows, ncalls, nfaults>>
    /\ UNCHANGED <<pipeVars, convVars>>

\* One caller at a time, of insert_or_append and of get; any statement may fail.
CacheNext ==
    \E w \in {"w1"} :
        \/ /\ ncalls < MaxCalls
           /\ \E u \in Users, c \in Conversations, e \in CacheEntries : Call(w, u, c, e)
        \/ Select(w)
        \/ Update(w)
        \/ Insert(w)
        \/ CleanupCount(w)
        \/ CleanupDelete(w)
        \/ \E u \in Users, c \in Conversations : GetCall(w, u, c)
        \/ GetSelect(w)
        \/ Fault(w)
        \/ DecodeFault(w)
        \/ Return(w)

\* Two callers, their statements interleaved in any way.
RaceNext ==
    \E w \in Callers :
        \/ /\ ncalls < MaxRaceCalls
           /\ \E u \in Users, c \in Conversations, e \in CacheEntries : Call(w, u, c, e)
        \/ Select(w)
        \/ Update(w)
        \/ Insert(w)
        \/ CleanupCount(w)
        \/ CleanupDelete(w)
        \/ Return(w)

Next ==
    \/ Begin
    \/ ResumeStart
    \/ NextItem
    \/ ResumeToken
    \/ ResumeError
    \/ StoreData
    \/ ConsumeTokens
    \/ EndStream
    \/ ResumeEnd
    \/ Close

\* One streaming request; the cache is idle.
\* The state conversation_request leaves for a first request: no history was found, so
\* the topic summary was generated (lines 101-107).
ConvVarsInit ==
    /\ nrequests = 1
    /\ topic_summaries = 1

Init == PipeInit /\ CacheInit /\ ConvVarsInit

Spec == Init /\ [][Next]_vars

\* The cache, no streaming request.
CacheSpecInit ==
    /\ PipeInit
    /\ media_type = MEDIA_TYPE_TEXT
    /\ generator = <<>>
    /\ CacheInit
    /\ nrequests = 0
    /\ topic_summaries = 0

\* ------------------------------------- requests on one conversation, in turn
\* process_request: previous_input is the history the cache holds for the conversation.
previous_input(rs) == get(rs, user_id, conversation_id)

ConvGenerators == SeqsUpTo(Items, MaxConvItems)

\* conversation_request (lines 88-125) for the next request on (user_id,
\* conversation_id), made when the one before is over: the topic summary is generated
\* when no history is found (lines 101-107), and a new response_processing_wrapper
\* is created.
conversation_request(mt, g) ==
    /\ pc \in {"done", "failed", "raised", "closed"}
    /\ nrequests < MaxRequests
    /\ nrequests' = nrequests + 1
    /\ topic_summaries' = IF previous_input(rows) = <<>>
                          THEN topic_summaries + 1
                          ELSE topic_summaries
    /\ media_type' = mt
    /\ generator' = g
    /\ pos' = 0
    /\ pc' = "init"
    /\ response' = <<>>
    /\ rag_chunks' = <<>>
    /\ history_truncated' = FALSE
    /\ idx' = 0
    /\ token_counter' = None
    /\ events' = <<>>
    /\ wire' = <<>>
    /\ storeCalls' = <<>>
    /\ consumeCalls' = <<>>
    /\ closedAt' = "open"
    /\ UNCHANGED <<quota, cacheVars>>

\* A request on another conversation stores its turn (store_data of that request).
OtherConversationStores(u, c) ==
    /\ <<u, c>> # <<user_id, conversation_id>>
    /\ nrequests < MaxRequests
    /\ nrequests' = nrequests + 1
    /\ rows' = insert_or_append(rows, u, c, CacheEntry("query", <<"a">>))
    /\ UNCHANGED <<pipeVars, cacheLocals, topic_summaries>>

ConvNext ==
    \/ \E mt \in MediaTypes, g \in ConvGenerators : conversation_request(mt, g)
    \/ \E u \in Users, c \in Conversations : OtherConversationStores(u, c)
    \/ Begin
    \/ ResumeStart
    \/ NextItem
    \/ ResumeToken
    \/ ResumeError
    \/ StoreData
    \/ ConsumeTokens
    \/ EndStream
    \/ ResumeEnd
    \/ Close

ConvInit ==
    /\ PipeInit
    /\ generator \in ConvGenerators
    /\ CacheInit
    /\ ConvVarsInit

\* Requests on (user_id, conversation_id) one after the other, while other
\* conversations fill the cache.
ConvSpec == ConvInit /\ [][ConvNext]_vars

\* Sequential calls of insert_or_append, with statements that may fail.
CacheSpec == CacheSpecInit /\ [][CacheNext]_vars

\* Concurrent calls of insert_or_append.
RaceSpec == CacheSpecInit /\ [][RaceNext]_vars

\* The keys of the cache in some order, and the cache after the first n of them were
\* created one after the other, each by a call of insert_or_append that returned.
KeyOrder == <<<<"u1", "c1">>, <<"u1", "c2">>, <<"u2", "c1">>, <<"u2", "c2">>>>

RECURSIVE Prefilled(_)
Prefilled(n) ==
    IF n = 0 THEN {}
    ELSE insert_or_append(Prefilled(n - 1), KeyOrder[n][1], KeyOrder[n][2], "t1")

\* A cache that holds `capacity` entries (as many as there are keys, if fewer), no
\* call in flight.
FullCacheInit ==
    /\ PipeInit
    /\ media_type = MEDIA_TYPE_TEXT
    /\ generator = <<>>
    /\ rows = Prefilled(IF capacity <= Len(KeyOrder) THEN capacity ELSE Len(KeyOrder))
    /\ cpc = [w \in Callers |-> "idle"]
    /\ args = [w \in Callers |-> NoArgs]
    /\ old_value = [w \in Callers |-> <<>>]
    /\ count = [w \in Callers |-> 0]
    /\ before = [w \in Callers |-> {}]
    /\ ncalls = 0
    /\ nfaults = 0
    /\ call = [w \in Callers |-> ""]
    /\ result = [w \in Callers |-> <<>>]
    /\ exc = [w \in Callers |-> NoError]
    /\ nrequests = 0
    /\ topic_summaries = 0

\* Concurrent calls of insert_or_append on a full cache.
FullRaceSpec == FullCacheInit /\ [][RaceNext]_vars

\* ------------------------------------------------- claims on the pipeline
IsTerminalEvent(e) == e.type \in {"End", "Error"}
TokenEvents == SelectSeq(events, LAMBDA e : e.type = "Token")
TerminalEvents == SelectSeq(events, IsTerminalEvent)
EndEvents == SelectSeq(events, LAMBDA e : e.type = "End")
ErrorEvents == SelectSeq(events, LAMBDA e : e.type = "Error")

\* The number of fragments the source hands over before anything else.
RECURSIVE LeadingFragments(_)
LeadingFragments(g) ==
    IF g = <<>> \/ g[1].kind # "fragment" THEN 0 ELSE 1 + LeadingFragments(Tail(g))

SourceN == LeadingFragments(generator)
SourceYieldsResult ==
    /\ SourceN < Len(generator)
    /\ generator[SourceN + 1].kind = "SummarizerResponse"

\* The Token events are those of the first n items of the source, indexed 0..n-1.
TokensAreFirst(n) ==
    /\ Len(TokenEvents) = n
    /\ \A i \in 1..n : TokenEvents[i] = TokenEvent(i - 1, generator[i].payload)

\* Every Token frame on the wire is the encoding of its event.
TokenFramesMatch ==
    \A j \in 1..Len(events) :
        events[j].type = "Token" =>
            wire[j] = build_yield_item(events[j].fragment, events[j].index, media_type)

StreamOver == pc \in {"store", "consume", "quotas", "yield_end", "done", "raised"}
                \/ (pc = "closed" /\ closedAt = "yield_end")

\* C1: when the source hands over N fragments and then the terminal result, the Token
\* events emitted so far are always those of the first fragments, indexed 0, 1, ... with
\* no gap and no repeat; once the terminal result is consumed there are exactly N of
\* them, the terminal result is not among them, and no item behind the terminal result
\* is ever pulled from the source.
C1_TokenIndices ==
    SourceYieldsResult =>
        /\ pos <= SourceN + 1
        /\ TokensAreFirst(Len(TokenEvents))
        /\ Len(TokenEvents) <= SourceN
        /\ TokenFramesMatch
        /\ (StreamOver => (pos = SourceN + 1 /\ TokensAreFirst(SourceN)))

C1_Witness ==
    /\ SourceYieldsResult
    /\ SourceN = 2
    /\ Len(generator) > SourceN + 1
    /\ pc = "done"
    /\ media_type = MEDIA_TYPE_JSON

\* C2 as stated: every request that ended without being cancelled has produced exactly
\* one terminal event (End or Error), and that event is the last one.
C2_Original ==
    pc \in {"done", "failed", "raised"} =>
        /\ Len(TerminalEvents) = 1
        /\ IsTerminalEvent(events[Len(events)])

\* C2, amended: at most one terminal event is ever produced, it comes after every Token
\* event and nothing follows it; a request that ended in DONE or FAILED has produced
\* exactly one, and a request in which a finalize step raised has produced none.
C2_OneTerminalEvent ==
    /\ Len(TerminalEvents) <= 1
    /\ Len(TerminalEvents) = 1 => IsTerminalEvent(events[Len(events)])
    /\ pc \in {"done", "failed"} => Len(TerminalEvents) = 1
    /\ pc = "done" => events[Len(events)].type = "End"
    /\ pc = "failed" => events[Len(events)].type = "Error"
    /\ pc = "raised" => Len(TerminalEvents) = 0

C2_Witness ==
    /\ pc = "failed"
    /\ Len(TokenEvents) = 2
    /\ Len(TerminalEvents) = 1

\* C3: once the source has raised (prompt too long or any other exception), after any
\* number of forwarded Token events, the events are those Token events followed by
\* exactly one Error event of the matching kind, encoded for the media type; there is
\* no End event, no store_data call and no consume_tokens call, and the pipeline stops.
C3_ErrorStops ==
    (pos > 0 /\ generator[pos].kind \in {"PromptTooLongError", "Exception"}) =>
        LET item == generator[pos] IN
        /\ pos = SourceN + 1
        /\ TokensAreFirst(SourceN)
        /\ Len(ErrorEvents) = 1
        /\ Len(EndEvents) = 0
        /\ events[Len(events)] =
              ErrorEvent(IF item.kind = "PromptTooLongError" THEN "PromptTooLong"
                         ELSE "Generic", item.payload)
        /\ wire[Len(wire)] =
              IF item.kind = "PromptTooLongError"
              THEN prompt_too_long_error(item.payload, media_type)
              ELSE generic_llm_error(item.payload, media_type)
        /\ storeCalls = <<>>
        /\ consumeCalls = <<>>
        /\ pc \in {"yield_error", "failed", "closed"}

C3_Witness ==
    /\ pc = "failed"
    /\ media_type = MEDIA_TYPE_TEXT
    /\ generator[pos].kind = "PromptTooLongError"
    /\ Len(TokenEvents) = 1
    /\ wire = <<events[1].fragment, <<"Prompt is too long: ">> \o generator[pos].payload>>

\* C4: store_data and consume_tokens are each called at most once per request, and only
\* after the loop over the source has ended without raising, when every fragment the
\* source handed over has been emitted as a Token event; consume_tokens only after
\* store_data returned.
C4_BookkeepingAfterStream ==
    /\ Len(storeCalls) <= 1
    /\ Len(consumeCalls) <= 1
    /\ storeCalls # <<>> =>
          /\ \/ pos = Len(generator) /\ SourceN = pos
             \/ pos > 0 /\ generator[pos].kind = "SummarizerResponse" /\ SourceN = pos - 1
          /\ TokensAreFirst(SourceN)
          /\ idx = SourceN
          /\ StreamOver
    /\ consumeCalls # <<>> => (storeCalls # <<>> /\ storeCalls[1].ok)

C4_Witness ==
    /\ Len(storeCalls) = 1
    /\ Len(consumeCalls) = 1
    /\ Len(TokenEvents) = 2
    /\ pc = "done"

\* C5: when the generator is closed while suspended at a Token yield, the finalize step
\* never runs: no store_data call, no consume_tokens call, no End or Error event.
C5_CancelSkipsFinalize ==
    closedAt = "yield_token" =>
        /\ pc = "closed"
        /\ storeCalls = <<>>
        /\ consumeCalls = <<>>
        /\ Len(TerminalEvents) = 0

C5_Witness ==
    /\ closedAt = "yield_token"
    /\ pc = "closed"
    /\ Len(TokenEvents) = 2

\* ---------------------------------------------------- claims on the cache
KeysOf(rs) == {<<r.user_id, r.conversation_id>> : r \in rs}
Quiescent == \A w \in Callers : cpc[w] \in {"idle", "returned"}
Created(w) == cpc[w] = "returned" /\ ~Truthy(old_value[w])
Appended(w) == cpc[w] = "returned" /\ Truthy(old_value[w])
Target(w) == Matching(rows, args[w][1], args[w][2])

\* C6: starting from the empty cache, whenever every insert_or_append call made so far
\* has returned (none is in flight, none was cut short by a storage failure), the cache
\* holds at most `capacity` distinct (user_id, conversation_id) keys.
C6_CapacityBound ==
    (Quiescent /\ nfaults = 0) => Cardinality(KeysOf(rows)) <= capacity

C6_Witness ==
    /\ nfaults = 0
    /\ cpc["w1"] = "returned"
    /\ count["w1"] = capacity + 1
    /\ Cardinality(KeysOf(rows)) = capacity
    /\ ncalls = MaxCalls

\* C7: when a call has created a new key, the rows are those from before the call plus
\* the new one, less the evicted ones: if the count with the new row exceeds `capacity`,
\* exactly (count - capacity) rows are gone, every one of them last written before every
\* row that is left, whatever its user_id, and `capacity` rows are left; otherwise no row
\* is gone. The last-write time is set on creation and refreshed by every append: the
\* row a call has just written is newer than every other row.
C7_EvictsOldest ==
    \A w \in Callers :
        /\ Created(w) =>
              LET n == Cardinality(before[w]) + 1
                  gone == before[w] \ rows
                  evictedNew == IF Target(w) = {} THEN 1 ELSE 0
              IN  /\ count[w] = n
                  /\ rows \ before[w] = Target(w)
                  /\ IF n > capacity
                     THEN /\ Cardinality(gone) + evictedNew = n - capacity
                          /\ Cardinality(rows) = capacity
                          /\ \A d \in gone, r \in rows : d.updated_at < r.updated_at
                     ELSE /\ gone = {}
                          /\ evictedNew = 0
        /\ cpc[w] = "returned" =>
              \A r \in Target(w) : \A o \in rows \ {r} : o.updated_at < r.updated_at
        /\ Appended(w) =>
              \A r \in Target(w), o \in Matching(before[w], args[w][1], args[w][2]) :
                  o.updated_at < r.updated_at

\* Two rows evicted at once (an earlier call failed after its insert), one of them of
\* another user than the caller's.
C7_Witness ==
    /\ Created("w1")
    /\ count["w1"] - capacity = 2
    /\ Cardinality(rows) = capacity
    /\ Cardinality(before["w1"] \ rows) = 2
    /\ \E d \in before["w1"] \ rows : d.user_id # args["w1"][1]

\* C8: with capacity >= 1, once a call insert_or_append(u, c, t) has returned, get(u, c)
\* is what get(u, c) was before the call with t appended at the end ([t] for a new key).
C8_AppendsAtEnd ==
    \A w \in Callers :
        (capacity >= 1 /\ cpc[w] = "returned") =>
            get(rows, args[w][1], args[w][2]) =
                Append(get(before[w], args[w][1], args[w][2]), args[w][3])

C8_Witness ==
    /\ Appended("w1")
    /\ get(before["w1"], args["w1"][1], args["w1"][2]) = <<"t1">>
    /\ get(rows, args["w1"][1], args["w1"][2]) = <<"t1", "t1">>

\* C9 as stated: when two calls on the same existing key, begun in the same state of the
\* cache, have both returned, the stored history is the prior history followed by both
\* turns.
C9_NoLostUpdate ==
    \A p \in Callers, q \in Callers :
        (/\ p # q
         /\ cpc[p] = "returned" /\ cpc[q] = "returned"
         /\ args[p][1] = args[q][1] /\ args[p][2] = args[q][2]
         /\ before[p] = before[q]
         /\ Matching(before[p], args[p][1], args[p][2]) # {}) =>
            LET prior == get(before[p], args[p][1], args[p][2])
            IN  get(rows, args[p][1], args[p][2]) \in
                    {prior \o <<args[p][3], args[q][3]>>, prior \o <<args[q][3], args[p][3]>>}

\* C10 as stated: a call that ended in CacheError has left the cache as it was before
\* the call.
C10_AllOrNothing ==
    \A w \in Callers : cpc[w] = "CacheError" => rows = before[w]

\* ------------------------------------------- further claims on the pipeline
StartEvents == SelectSeq(events, LAMBDA e : e.type = "Start")

\* C14: a Start event is emitted if and only if the media type is JSON. In JSON mode,
\* once the generator has been started there is exactly one Start event, it is the first
\* event, it carries the request's conversation_id and its frame is the start frame; in
\* text mode there is never a Start event.
C14_StartIffJson ==
    /\ Len(StartEvents) = (IF media_type = MEDIA_TYPE_JSON /\ pc # "init" THEN 1 ELSE 0)
    /\ Len(StartEvents) = 1 =>
          /\ events[1] = StartEvent(conversation_id)
          /\ wire[1] = stream_start_event(conversation_id)
    /\ media_type = MEDIA_TYPE_TEXT =>
          \A j \in 1..Len(wire) : wire[j] # stream_start_event(conversation_id)

C14_Witness ==
    /\ media_type = MEDIA_TYPE_JSON
    /\ pc = "done"
    /\ Len(events) = 4
    /\ events[1].type = "Start"
    /\ events[4].type = "End"

\* A finalize step has raised: store_data, consume_tokens, or the read of the quotas
\* (the only way to "raised" once consume_tokens has returned).
StoreFailed == storeCalls # <<>> /\ ~storeCalls[Len(storeCalls)].ok
ConsumeFailed == consumeCalls # <<>> /\ ~consumeCalls[Len(consumeCalls)].ok
QuotaReadFailed ==
    pc = "raised" /\ consumeCalls # <<>> /\ consumeCalls[Len(consumeCalls)].ok
FinalizeFailed == StoreFailed \/ ConsumeFailed \/ QuotaReadFailed

\* C15: when the loop over the source ended without raising and a finalize step fails
\* (store_data, consume_tokens or get_available_quotas raises), every fragment of the
\* source has already been emitted as a Token event, no Error event and no End event is
\* emitted, and the exception leaves the generator. An Error event exists only when
\* the source raised, and then no finalize step was run.
C15_FinalizeFailurePropagates ==
    /\ FinalizeFailed =>
          /\ pc = "raised"
          /\ TokensAreFirst(SourceN)
          /\ Len(ErrorEvents) = 0
          /\ Len(EndEvents) = 0
    /\ Len(ErrorEvents) > 0 =>
          /\ pos > 0
          /\ generator[pos].kind \in {"PromptTooLongError", "Exception"}
          /\ storeCalls = <<>>
          /\ consumeCalls = <<>>

C15_Witness ==
    /\ StoreFailed
    /\ pc = "raised"
    /\ Len(TokenEvents) = 2
    /\ Len(wire) = 2

\* C18: the finalize steps run in the order store_data, consume_tokens,
\* get_available_quotas, End: consume_tokens is called only after store_data returned,
\* an End event exists only after both returned, and the available_quotas it carries are
\* those left after this request's own consumption.
C18_FinalizeOrder ==
    /\ consumeCalls # <<>> => (Len(storeCalls) = 1 /\ storeCalls[1].ok)
    /\ pc = "quotas" => (Len(consumeCalls) = 1 /\ consumeCalls[1].ok)
    /\ Len(EndEvents) > 0 =>
          /\ Len(storeCalls) = 1 /\ storeCalls[1].ok
          /\ Len(consumeCalls) = 1 /\ consumeCalls[1].ok
          /\ EndEvents[1].available_quotas =
                get_available_quotas(
                    Max(0, InitialQuota - (consumeCalls[1].input_tokens
                                           + consumeCalls[1].output_tokens)))
          /\ EndEvents[1].available_quotas = get_available_quotas(quota)

C18_Witness ==
    /\ pc = "done"
    /\ Len(EndEvents) = 1
    /\ consumeCalls[1].input_tokens + consumeCalls[1].output_tokens = 2
    /\ EndEvents[1].available_quotas = get_available_quotas(InitialQuota - 2)

RECURSIVE ConcatFragments(_)
ConcatFragments(tokens) ==
    IF tokens = <<>> THEN <<>>
    ELSE tokens[1].fragment \o ConcatFragments(Tail(tokens))

\* C19: the response text handed to store_data is the concatenation, in the order of
\* emission, of the fragments of exactly the Token events emitted; for every request
\* that reached DONE it is the response of the last turn of the cached history.
C19_PersistedIsConcatenation ==
    /\ \A i \in 1..Len(storeCalls) :
          storeCalls[i].response = ConcatFragments(TokenEvents)
    /\ pc = "done" =>
          LET history == get(rows, user_id, conversation_id) IN
          /\ Len(storeCalls) = 1 /\ storeCalls[1].ok
          /\ history # <<>>
          /\ history[Len(history)].response = ConcatFragments(TokenEvents)

C19_Witness ==
    /\ pc = "done"
    /\ storeCalls[1].response = <<"a", "b", "a">>
    /\ Len(TokenEvents) = 3

\* C16 as stated, outcome (b): the metering of a request does not depend on its cache
\* write, so a request whose cache write failed still has consume_tokens called (and
\* quota consumed when the ledger accepts the call).
C16_Original ==
    (StoreFailed /\ pc \in {"done", "raised"}) => consumeCalls # <<>>

\* C16, amended: (a) the turn can be persisted while consume_tokens fails; (b) the
\* converse never happens: when the cache write of a request
\* fails, consume_tokens is not called for it and its quota is untouched.
C16_PersistThenMeter ==
    /\ StoreFailed => (consumeCalls = <<>> /\ quota = InitialQuota /\ pc = "raised")
    /\ ConsumeFailed => (Len(storeCalls) = 1 /\ storeCalls[1].ok /\ pc = "raised")
    /\ quota # InitialQuota =>
          /\ Len(storeCalls) = 1 /\ storeCalls[1].ok
          /\ Len(consumeCalls) = 1 /\ consumeCalls[1].ok

\* Outcome (a): persisted, metering failed.
C16_Witness ==
    /\ ConsumeFailed
    /\ storeCalls[1].ok
    /\ storeCalls[1].response = <<"b">>
    /\ pc = "raised"

\* The source holds fragments only: it ends with no terminal result and raises nothing
\* (invalid_response_generator, lines 128-134, is such a source, of one fragment).
SourceOnlyFragments == SourceN = Len(generator)

\* C22: when the source ends without a terminal result and without raising, the
\* request never ends in FAILED and no Error event is emitted; once the source is
\* exhausted the finalize steps run as for any other request: store_data is called with
\* the concatenated fragments, no RAG chunks and history_truncated = FALSE, then
\* consume_tokens with 0 input and 0 output tokens, then the End event with no
\* referenced documents, truncated = FALSE and zero token counts.
C22_ExhaustedSourceFinalizes ==
    SourceOnlyFragments =>
        /\ pc # "failed"
        /\ Len(ErrorEvents) = 0
        /\ (pos = Len(generator)
            /\ pc \notin {"init", "yield_start", "loop", "yield_token", "closed"}) =>
              /\ StreamOver
              /\ TokensAreFirst(SourceN)
        /\ pc \in {"consume", "quotas", "yield_end", "done"} =>
              /\ Len(storeCalls) = 1
              /\ storeCalls[1].ok
              /\ storeCalls[1].response = ConcatFragments(TokenEvents)
              /\ storeCalls[1].rag_chunks = <<>>
              /\ storeCalls[1].history_truncated = FALSE
        /\ pc \in {"quotas", "yield_end", "done"} =>
              /\ Len(consumeCalls) = 1
              /\ consumeCalls[1].ok
              /\ consumeCalls[1].input_tokens = 0
              /\ consumeCalls[1].output_tokens = 0
        /\ pc \in {"yield_end", "done"} =>
              /\ Len(EndEvents) = 1
              /\ events[Len(events)] =
                    EndEvent(<<>>, FALSE, None, get_available_quotas(quota))
              /\ wire[Len(wire)] =
                    stream_end_event(<<>>, FALSE, media_type, None,
                                     get_available_quotas(quota))

\* A source of one fragment, as invalid_response_generator is, run to DONE.
C22_Witness ==
    /\ Len(generator) = 1
    /\ generator[1].kind = "fragment"
    /\ pc = "done"
    /\ media_type = MEDIA_TYPE_JSON
    /\ Len(storeCalls) = 1
    /\ Len(consumeCalls) = 1
    /\ events[Len(events)].type = "End"
    /\ events[Len(events)].ref_docs = <<>>
    /\ events[Len(events)].truncated = FALSE

\* ---------------------------------------------- further claims on the cache
SameKey(p, q) == args[p][1] = args[q][1] /\ args[p][2] = args[q][2]
\* The call found no history and its INSERT went through.
Inserted(w) == cpc[w] \in {"cleanup", "delete", "returned"} /\ ~Truthy(old_value[w])

\* C13: under any interleaving of insert_or_append calls the cache holds at most one
\* row, hence one history, per (user_id, conversation_id); when two calls in flight both
\* found the same key absent, at most one of them gets its INSERT through, and the
\* other one finds the row in its way and ends in CacheError.
C13_OneHistoryPerKey ==
    /\ \A r1 \in rows : \A r2 \in rows :
          (r1.user_id = r2.user_id /\ r1.conversation_id = r2.conversation_id) => r1 = r2
    /\ \A p \in Callers : \A q \in Callers \ {p} :
          (SameKey(p, q) /\ Inserted(p)) =>
              /\ ~Inserted(q)
              /\ (cpc[q] = "insert" => Target(q) # {})
              /\ (cpc[q] \notin {"select", "insert"} /\ ~Truthy(old_value[q])) =>
                    cpc[q] = "CacheError"

C13_Witness ==
    /\ Created("w1")
    /\ cpc["w2"] = "CacheError"
    /\ SameKey("w1", "w2")
    /\ old_value["w2"] = <<>>
    /\ Cardinality(Target("w1")) = 1

\* C20: a call on a key that has a history runs no capacity enforcement (_cleanup is not
\* entered, even when the cache is over capacity): no row is deleted, the set of keys is
\* the one from before the call, every row of another key is as it was (same history,
\* same last-write time), and the row of the target key has a new history and a later
\* last-write time.
C20_AppendTouchesOneRow ==
    \A w \in Callers :
        /\ cpc[w] = "update" => rows = before[w]
        /\ Appended(w) =>
              LET old == Matching(before[w], args[w][1], args[w][2]) IN
              /\ count[w] = 0
              /\ KeysOf(rows) = KeysOf(before[w])
              /\ Cardinality(rows) = Cardinality(before[w])
              /\ rows \ Target(w) = before[w] \ old
              /\ \A r \in Target(w) : \A o \in old :
                    r.value # o.value /\ r.updated_at > o.updated_at

\* An append while the cache is over capacity (an earlier call failed before its
\* _cleanup): nothing is evicted.
C20_Witness ==
    /\ Appended("w1")
    /\ Cardinality(rows) = capacity + 1
    /\ nfaults = 1

\* C11 as stated: whatever fails inside get or insert_or_append, a statement of the
\* storage or the deserialization of the stored value, the exception that leaves the
\* operation is a CacheError that names the operation and carries the cause; no
\* exception of another type leaves them.
C11_OnlyCacheError ==
    \A w \in Callers :
        exc[w] # NoError =>
            /\ exc[w].type = "CacheError"
            /\ exc[w].op = (IF call[w] = "get" THEN "PostgresCache.get"
                            ELSE "PostgresCache.insert_or_append")
            /\ exc[w].cause # ""

C17_SummaryOnce == topic_summaries <= 1

\* C21 as stated: when two interleaved calls have created different new keys in a cache
\* that held at least `capacity` entries when each of them began, and both have
\* returned, eviction has removed no more than needed: the cache still holds at least
\* `capacity` entries.
C21_NoOverEviction ==
    \A p \in Callers : \A q \in Callers \ {p} :
        (/\ Created(p) /\ Created(q)
         /\ ~SameKey(p, q)
         /\ Cardinality(before[p]) >= capacity
         /\ Cardinality(before[q]) >= capacity) =>
            Cardinality(rows) >= capacity

====
